---- MODULE Spec2Model ----
(***************************************************************************)
(* Exact rational arithmetic (Fraction) and complex arithmetic (Complex)   *)
(* of the fraction crate, src/src/lib.rs and src/src/complex.rs.           *)
(*                                                                         *)
(* A Fraction is a record [numerator, denominator]; i32 and u32 are        *)
(* modelled by unbounded integers kept inside small ranges, so every       *)
(* statement below is a statement about runs without integer overflow.    *)
(* A Result<Fraction, _> or a panicking operator is a record [tag, val]    *)
(* with tag "Ok", "Err" (DivByZeroError), "ParseErr" (ParseFractionError)  *)
(* or "Panic" (a failed expect).                                           *)
(***************************************************************************)
EXTENDS Integers, Sequences, FiniteSets, TLC

VARIABLES a, b, c, d, op, out, text,
          value, error, pc, integer_part, decimal_part, lower, upper, result,
          acc, last,
          g_a, g_b, g_small, g_large, g_i, g_result, g_pc

vars == <<a, b, c, d, op, out, text,
          value, error, pc, integer_part, decimal_part, lower, upper, result,
          acc, last,
          g_a, g_b, g_small, g_large, g_i, g_result, g_pc>>

fraction_vars == <<a, b, c, d, op, out, text>>
f64_vars == <<value, error, pc, integer_part, decimal_part, lower, upper, result>>
seq_vars == <<acc, last>>
gcd_vars == <<g_a, g_b, g_small, g_large, g_i, g_result, g_pc>>

(***************************************************************************)
(* Bounds of the model.                                                    *)
(***************************************************************************)
\* numerators of the operands a and b range over -MaxNum..MaxNum
MaxNum == 3
\* denominators of the operands a and b range over 0..MaxDen
MaxDen == 4
\* the third operand c has numerator in -MaxNumC..MaxNumC, denominator in 1..MaxDenC
MaxNumC == 1
MaxDenC == 2
\* the displayed Fraction has numerator in -MaxTextNum..MaxTextNum and
\* denominator in 0..MaxTextDen
MaxTextNum == 12
MaxTextDen == 11
\* from_f64: value and error are multiples of 1/Scale, value within
\* -MaxValue..MaxValue and error within 0..MaxError/Scale
Scale == 8
MaxValue == 2
MaxError == 5
\* from_f64: the largest denominator the model's u32 holds
DenominatorLimit == 15
\* sequences of operations: operands are built from numerators in
\* -MaxSeqNum..MaxSeqNum and denominators in 1..MaxSeqDen, and results are
\* followed while their components stay within SeqLimit
MaxSeqNum == 2
MaxSeqDen == 3
SeqLimit == 6
\* the components of the Complex operands have numerators in
\* -MaxComplexNum..MaxComplexNum and denominators in 1..MaxComplexDen
MaxComplexNum == 1
MaxComplexDen == 2
\* the arguments of gcd range over 0..MaxGcdArg
MaxGcdArg == 12

(***************************************************************************)
(* Integer helpers: i32::abs, i32::signum, Rust's truncating division.     *)
(***************************************************************************)
Abs(x) == IF x < 0 THEN -x ELSE x

Signum(x) == IF x > 0 THEN 1 ELSE IF x < 0 THEN -1 ELSE 0

TruncDiv(x, y) == IF x >= 0 THEN x \div y ELSE -((-x) \div y)

(***************************************************************************)
(* gcd and get_ordering, lib.rs 423-457.                                   *)
(***************************************************************************)
get_ordering(x, y) == IF x < y THEN <<x, y>> ELSE <<y, x>>

\* the common divisors the scan of the while loop can stop at
CommonDivisors(small, large) ==
    {i \in 2..small : small % i = 0 /\ large % i = 0}

\* the while loop of gcd, one unfolding per divisor found.  i = 1 divides
\* both and changes nothing; after a common divisor i is divided out, i is
\* reset to 1 and incremented, so the scan restarts at 2 and stops at the
\* smallest common divisor of the current pair, or runs past small and
\* ends the loop.
RECURSIVE gcd_loop(_, _, _)
gcd_loop(small, large, res) ==
    LET s == CommonDivisors(small, large)
    IN  IF s = {}
        THEN res
        ELSE LET i == CHOOSE x \in s : \A y \in s : x <= y
             IN  gcd_loop(small \div i, large \div i, res * i)

gcd(x, y) ==
    LET o == get_ordering(x, y)
    IN  gcd_loop(o[1], o[2], 1)

(***************************************************************************)
(* Results.                                                                *)
(***************************************************************************)
Frac(n, m) == [numerator |-> n, denominator |-> m]

NoFrac == Frac(0, 0)

Ok(f) == [tag |-> "Ok", val |-> f]

DivByZeroError == [tag |-> "Err", val |-> NoFrac]

ParseFractionError == [tag |-> "ParseErr", val |-> NoFrac]

Panic == [tag |-> "Panic", val |-> NoFrac]

\* Result::expect: the value, or a panic
expect(r) == IF r.tag = "Ok" THEN r ELSE Panic

(***************************************************************************)
(* Constructors and simplification, lib.rs 24-103.                         *)
(***************************************************************************)
unchecked_new(n, m) == Frac(n, m)

\* unsimplified_new without the zero check
unsimplified_new_no_check(n, m) == Ok(Frac(n, m))

unsimplified_new(n, m) ==
    IF m = 0 THEN DivByZeroError ELSE Ok(Frac(n, m))

simplify(f) ==
    LET g == gcd(Abs(f.numerator), f.denominator)
    IN  Frac(TruncDiv(f.numerator, g), f.denominator \div g)

new(n, m) ==
    LET r == unsimplified_new(n, m)
    IN  IF r.tag = "Ok" THEN Ok(simplify(r.val)) ELSE r

from_i32(v) == unchecked_new(v, 1)

(***************************************************************************)
(* Comparison, lib.rs 263-287.                                             *)
(***************************************************************************)
IntCmp(x, y) == IF x < y THEN "Less" ELSE IF x = y THEN "Equal" ELSE "Greater"

\* cmp with each numerator multiplied by its own denominator
cmp_own_denominator(f, g) ==
    IntCmp(f.numerator * f.denominator, g.numerator * g.denominator)

cmp(f, g) ==
    IntCmp(f.numerator * g.denominator, g.numerator * f.denominator)

eq(f, g) == cmp(f, g) = "Equal"

(***************************************************************************)
(* Arithmetic, lib.rs 289-413.  Each operator returns Ok(fraction) or      *)
(* Panic.                                                                  *)
(***************************************************************************)
\* add with the right operand's denominator kept in place of the common one
add_rhs_denominator(f, g) ==
    LET denominator_gcd == gcd(f.denominator, g.denominator)
        numerator == f.numerator * (g.denominator \div denominator_gcd)
                     + g.numerator * (f.denominator \div denominator_gcd)
    IN  expect(new(numerator, g.denominator))

add(f, g) ==
    LET denominator_gcd == gcd(f.denominator, g.denominator)
        numerator == f.numerator * (g.denominator \div denominator_gcd)
                     + g.numerator * (f.denominator \div denominator_gcd)
        denominator == (f.denominator * g.denominator) \div denominator_gcd
    IN  expect(new(numerator, denominator))

neg(f) == unchecked_new(-f.numerator, f.denominator)

sub(f, g) == add(f, neg(g))

mul(f, g) ==
    expect(new(f.numerator * g.numerator, f.denominator * g.denominator))

signum(f) == Signum(f.numerator)

\* reciprocal that drops the sign of the numerator
reciprocal_unsigned(f) ==
    unsimplified_new(f.denominator, Abs(f.numerator))

reciprocal(f) ==
    unsimplified_new(f.denominator * Signum(f.numerator), Abs(f.numerator))

abs(f) == unchecked_new(Abs(f.numerator), f.denominator)

div(f, g) ==
    LET r == expect(reciprocal(g))
    IN  IF r.tag = "Ok" THEN mul(f, r.val) ELSE Panic

(***************************************************************************)
(* The operands.                                                           *)
(***************************************************************************)
Inputs == {Frac(n, m) : n \in -MaxNum..MaxNum, m \in 0..MaxDen}

InputsC == {Frac(n, m) : n \in -MaxNumC..MaxNumC, m \in 1..MaxDenC}

\* a valid Fraction: what a checked constructor accepts
Valid(f) == f.denominator > 0

Idle == Frac(0, 1)

FractionInit ==
    /\ a \in Inputs
    /\ b \in Inputs
    /\ c \in InputsC
    /\ d = Idle
    /\ op = "init"
    /\ out = Panic
    /\ text = <<>>

F64Idle ==
    /\ value = 0
    /\ error = 0
    /\ pc = "idle"
    /\ integer_part = 0
    /\ decimal_part = 0
    /\ lower = Idle
    /\ upper = Idle
    /\ result = Panic

SeqIdle ==
    /\ acc = Idle
    /\ last = "idle"

GcdIdle ==
    /\ g_a = 0
    /\ g_b = 0
    /\ g_small = 0
    /\ g_large = 0
    /\ g_i = 0
    /\ g_result = 0
    /\ g_pc = "idle"

Init == FractionInit /\ F64Idle /\ SeqIdle /\ GcdIdle

Apply(name, r) ==
    /\ op' = name
    /\ out' = r
    /\ UNCHANGED <<a, b, c, d, text, f64_vars, seq_vars, gcd_vars>>

DoNew == Apply("new", new(a.numerator, a.denominator))

DoUnsimplifiedNew == Apply("unsimplified_new", unsimplified_new(a.numerator, a.denominator))

DoSimplify == Apply("simplify", Ok(simplify(a)))

DoCmp == Apply("cmp", cmp(a, b))

DoAdd == Apply("add", add(a, b))

DoNeg == Apply("neg", Ok(neg(a)))

DoSub == Apply("sub", sub(a, b))

DoMul == Apply("mul", mul(a, b))

DoReciprocal == Apply("reciprocal", reciprocal(a))

DoAbs == Apply("abs", Ok(abs(a)))

DoDiv == Apply("div", div(a, b))

Next ==
    \/ DoNew
    \/ DoUnsimplifiedNew
    \/ DoSimplify
    \/ DoCmp
    \/ DoAdd
    \/ DoNeg
    \/ DoSub
    \/ DoMul
    \/ DoReciprocal
    \/ DoAbs
    \/ DoDiv

Spec == Init /\ [][Next]_vars

(***************************************************************************)
(* Text: Display (lib.rs 228-241) and FromStr (lib.rs 246-261).  A string  *)
(* is a sequence of one-character strings.                                 *)
(***************************************************************************)
Digits == <<"0", "1", "2", "3", "4", "5", "6", "7", "8", "9">>

\* the decimal rendering "{}" of an unsigned integer
RECURSIVE NatToStr(_)
NatToStr(n) ==
    IF n < 10
    THEN <<Digits[n + 1]>>
    ELSE NatToStr(n \div 10) \o <<Digits[(n % 10) + 1]>>

\* the decimal rendering "{}" of a signed integer
IntToStr(n) == IF n < 0 THEN <<"-">> \o NatToStr(-n) ELSE NatToStr(n)

\* Display that renders the absolute value of the numerator
fmt_unsigned(f) ==
    IF f.denominator # 1
    THEN NatToStr(Abs(f.numerator)) \o <<"/">> \o NatToStr(f.denominator)
    ELSE NatToStr(Abs(f.numerator))

fmt(f) ==
    IF f.denominator # 1
    THEN IntToStr(f.numerator) \o <<"/">> \o NatToStr(f.denominator)
    ELSE IntToStr(f.numerator)

\* str::split_once: the text before and after the first occurrence of ch
split_once(s, ch) ==
    IF \E i \in 1..Len(s) : s[i] = ch
    THEN LET i == CHOOSE j \in 1..Len(s) :
                      s[j] = ch /\ \A k \in 1..(j - 1) : s[k] # ch
         IN  [found |-> TRUE, left |-> SubSeq(s, 1, i - 1),
              right |-> SubSeq(s, i + 1, Len(s))]
    ELSE [found |-> FALSE, left |-> <<>>, right |-> <<>>]

IsWhitespace(ch) == ch \in {" ", "\t", "\n", "\r"}

\* str::trim: drop leading and trailing whitespace
RECURSIVE trim(_)
trim(s) ==
    IF s = <<>> THEN s
    ELSE IF IsWhitespace(Head(s)) THEN trim(Tail(s))
    ELSE IF IsWhitespace(s[Len(s)]) THEN trim(SubSeq(s, 1, Len(s) - 1))
    ELSE s

DigitValue(ch) == CHOOSE v \in 0..9 : Digits[v + 1] = ch

IsDigit(ch) == \E v \in 0..9 : Digits[v + 1] = ch

RECURSIVE DigitsValue(_)
DigitsValue(s) ==
    IF s = <<>> THEN 0
    ELSE 10 * DigitsValue(SubSeq(s, 1, Len(s) - 1)) + DigitValue(s[Len(s)])

ParseFail == [ok |-> FALSE, val |-> 0]

\* str::parse::<i32>: an optional sign, then one or more digits (the texts
\* of the model are short, so the value is always in the range of i32)
parse_i32(s) ==
    LET signed == s # <<>> /\ Head(s) \in {"+", "-"}
        digits == IF signed THEN Tail(s) ELSE s
        v == IF signed /\ Head(s) = "-"
             THEN -DigitsValue(digits) ELSE DigitsValue(digits)
    IN  IF digits = <<>> \/ \E i \in 1..Len(digits) : ~IsDigit(digits[i])
        THEN ParseFail
        ELSE [ok |-> TRUE, val |-> v]

\* str::parse::<u32>: an optional "+", then one or more digits; a "-" is
\* no digit
parse_u32(s) ==
    LET signed == s # <<>> /\ Head(s) = "+"
        digits == IF signed THEN Tail(s) ELSE s
        v == DigitsValue(digits)
    IN  IF digits = <<>> \/ \E i \in 1..Len(digits) : ~IsDigit(digits[i])
        THEN ParseFail
        ELSE [ok |-> TRUE, val |-> v]

from_str(s) ==
    LET sp == split_once(s, "/")
        numerator == parse_i32(trim(sp.left))
        denominator == parse_u32(trim(sp.right))
    IN  IF ~sp.found THEN ParseFractionError
        ELSE IF ~numerator.ok THEN ParseFractionError
        ELSE IF ~denominator.ok THEN ParseFractionError
        ELSE LET r == new(numerator.val, denominator.val)
             IN  IF r.tag = "Ok" THEN r ELSE ParseFractionError

(***************************************************************************)
(* The text specification: a Fraction is displayed, and texts are parsed.  *)
(***************************************************************************)
TextInputs == {Frac(n, m) : n \in -MaxTextNum..MaxTextNum, m \in 0..MaxTextDen}

\* texts a caller may hand to the parser, besides what Display wrote:
\* the string of main.rs, a bare integer, a zero denominator, no number
SampleTexts ==
    { <<"-", "4", " ", "/", " ", "5">>, <<"7">>, <<"1", "/", "0">>,
      <<"x", "/", "2">>, <<"+", "6", "/", "+", "4">>, <<"1", "/", "-", "2">> }

TextInit ==
    /\ a \in TextInputs
    /\ b = Idle
    /\ c = Idle
    /\ d = Idle
    /\ op = "init"
    /\ out = Panic
    /\ text = <<>>
    /\ F64Idle
    /\ SeqIdle
    /\ GcdIdle

DoDisplay ==
    /\ text' = fmt(a)
    /\ op' = "fmt"
    /\ UNCHANGED <<a, b, c, d, out, f64_vars, seq_vars, gcd_vars>>

DoInput ==
    \E s \in SampleTexts :
        /\ text' = s
        /\ op' = "input"
        /\ UNCHANGED <<a, b, c, d, out, f64_vars, seq_vars, gcd_vars>>

DoParse ==
    /\ out' = from_str(text)
    /\ op' = "from_str"
    /\ UNCHANGED <<a, b, c, d, text, f64_vars, seq_vars, gcd_vars>>

TextNext ==
    \/ DoDisplay
    \/ DoInput
    \/ DoParse

TextSpec == TextInit /\ [][TextNext]_vars

(***************************************************************************)
(* from_f64, lib.rs 182-225, one action per step of the function.          *)
(*                                                                         *)
(* The f64 arguments are multiples of 1/Scale: value and error hold the    *)
(* numerators, so the float comparison  n > d * (decimal_part + error)  is *)
(* the integer comparison  n * Scale > d * (decimal_part + error).  For    *)
(* Scale a power of two and the small integers of the model every float    *)
(* operation of the function is exact, so nothing is lost.                 *)
(*                                                                         *)
(* DenominatorLimit stands for u32::MAX: the mediant's denominator is a    *)
(* u32 sum, which past the limit panics (a build with overflow checks) or  *)
(* wraps (a build without).                                                *)
(***************************************************************************)
F64Init ==
    /\ value \in (-(MaxValue * Scale))..(MaxValue * Scale)
    /\ error \in 0..MaxError
    /\ pc = "start"
    /\ integer_part = 0
    /\ decimal_part = 0
    /\ lower = Idle
    /\ upper = Idle
    /\ result = Panic
    /\ a = Idle /\ b = Idle /\ c = Idle /\ d = Idle
    /\ op = "init" /\ out = Panic /\ text = <<>>
    /\ SeqIdle
    /\ GcdIdle

\* lines 184-197: floor, remainder, the two early returns, the first bounds
F64Start ==
    /\ pc = "start"
    /\ LET ip == value \div Scale
           dp == value - ip * Scale
       IN  /\ integer_part' = ip
           /\ decimal_part' = dp
           /\ IF dp < error
              THEN /\ result' = Ok(from_i32(ip))
                   /\ pc' = "returned"
                   /\ UNCHANGED <<lower, upper>>
              ELSE IF dp > Scale - error
              THEN /\ result' = Ok(from_i32(ip + 1))
                   /\ pc' = "returned"
                   /\ UNCHANGED <<lower, upper>>
              ELSE /\ lower' = from_i32(0)
                   /\ upper' = from_i32(1)
                   /\ pc' = "loop"
                   /\ UNCHANGED result
    /\ UNCHANGED <<value, error, fraction_vars, seq_vars, gcd_vars>>

\* lines 207-223: the body of the loop, once the mediant is computed
F64Branch(middle) ==
    IF middle.numerator * Scale > middle.denominator * (decimal_part + error)
    THEN /\ upper' = middle
         /\ UNCHANGED <<lower, result, pc>>
    ELSE IF middle.numerator * Scale < middle.denominator * (decimal_part - error)
    THEN /\ lower' = middle
         /\ UNCHANGED <<upper, result, pc>>
    ELSE LET r == expect(new(integer_part * middle.denominator + middle.numerator,
                             middle.denominator))
         IN  /\ result' = r
             /\ pc' = IF r.tag = "Ok" THEN "returned" ELSE "panicked"
             /\ UNCHANGED <<lower, upper>>

\* one iteration whose mediant fits the integers
F64Step ==
    /\ pc = "loop"
    /\ lower.denominator + upper.denominator <= DenominatorLimit
    /\ F64Branch(unchecked_new(lower.numerator + upper.numerator,
                               lower.denominator + upper.denominator))
    /\ UNCHANGED <<value, error, integer_part, decimal_part, fraction_vars, seq_vars, gcd_vars>>

\* the denominator sum overflows and the build checks overflow: a panic
F64OverflowPanic ==
    /\ pc = "loop"
    /\ lower.denominator + upper.denominator > DenominatorLimit
    /\ pc' = "panicked"
    /\ UNCHANGED <<value, error, integer_part, decimal_part, lower, upper, result,
                   fraction_vars, seq_vars, gcd_vars>>

\* the denominator sum overflows and the build does not check: it wraps
F64OverflowWrap ==
    /\ pc = "loop"
    /\ lower.denominator + upper.denominator > DenominatorLimit
    /\ F64Branch(unchecked_new(lower.numerator + upper.numerator,
                               (lower.denominator + upper.denominator)
                                   % (DenominatorLimit + 1)))
    /\ UNCHANGED <<value, error, integer_part, decimal_part, fraction_vars, seq_vars, gcd_vars>>

F64Next ==
    \/ F64Start
    \/ F64Step
    \/ F64OverflowPanic
    \/ F64OverflowWrap

F64Spec == F64Init /\ [][F64Next]_vars

\* the function runs to its end: no step is postponed for ever
F64FairSpec == F64Init /\ [][F64Next]_vars /\ WF_vars(F64Next)

(***************************************************************************)
(* Sequences of operations: a Fraction built by a checked constructor is   *)
(* combined, operation after operation, with other built Fractions.        *)
(* Results whose components leave -SeqLimit..SeqLimit stand for overflow   *)
(* and are not followed; a panicking division ends the program.            *)
(***************************************************************************)
Built ==
    {new(n, m).val : n \in -MaxSeqNum..MaxSeqNum, m \in 1..MaxSeqDen}
        \cup {from_i32(n) : n \in -MaxSeqNum..MaxSeqNum}

InRange(f) == Abs(f.numerator) <= SeqLimit /\ f.denominator <= SeqLimit

SeqInit ==
    /\ acc \in Built
    /\ last = "built"
    /\ a = Idle /\ b = Idle /\ c = Idle /\ d = Idle
    /\ op = "init" /\ out = Panic /\ text = <<>>
    /\ F64Idle
    /\ GcdIdle

\* the operation returned a Fraction, within the integers of the model
Followed(r) == r.tag = "Ok" /\ InRange(r.val)

SeqAdd ==
    \E x \in Built :
        /\ Followed(add(acc, x))
        /\ acc' = add(acc, x).val
        /\ last' = "add"
        /\ UNCHANGED <<fraction_vars, f64_vars, gcd_vars>>

SeqSub ==
    \E x \in Built :
        /\ Followed(sub(acc, x))
        /\ acc' = sub(acc, x).val
        /\ last' = "sub"
        /\ UNCHANGED <<fraction_vars, f64_vars, gcd_vars>>

SeqMul ==
    \E x \in Built :
        /\ Followed(mul(acc, x))
        /\ acc' = mul(acc, x).val
        /\ last' = "mul"
        /\ UNCHANGED <<fraction_vars, f64_vars, gcd_vars>>

SeqDiv ==
    \E x \in Built :
        /\ Followed(div(acc, x))
        /\ acc' = div(acc, x).val
        /\ last' = "div"
        /\ UNCHANGED <<fraction_vars, f64_vars, gcd_vars>>

SeqNeg ==
    /\ Followed(Ok(neg(acc)))
    /\ acc' = Ok(neg(acc)).val
    /\ last' = "neg"
    /\ UNCHANGED <<fraction_vars, f64_vars, gcd_vars>>

SeqAbs ==
    /\ Followed(Ok(abs(acc)))
    /\ acc' = Ok(abs(acc)).val
    /\ last' = "abs"
    /\ UNCHANGED <<fraction_vars, f64_vars, gcd_vars>>

SeqReciprocal ==
    /\ Followed(reciprocal(acc))
    /\ acc' = reciprocal(acc).val
    /\ last' = "reciprocal"
    /\ UNCHANGED <<fraction_vars, f64_vars, gcd_vars>>

SeqNext ==
    \/ SeqAdd
    \/ SeqSub
    \/ SeqMul
    \/ SeqDiv
    \/ SeqNeg
    \/ SeqAbs
    \/ SeqReciprocal

SeqSpec == SeqInit /\ [][SeqNext]_vars

(***************************************************************************)
(* Complex, complex.rs.  A Complex is a record [real, imaginary] of        *)
(* Fractions; an operator returns [tag, val] with tag "Ok" or "Panic".     *)
(***************************************************************************)
complex_from(re, im) == [real |-> re, imaginary |-> im]

ComplexOk(z) == [tag |-> "Ok", val |-> z]

ComplexPanic == [tag |-> "Panic", val |-> complex_from(NoFrac, NoFrac)]

\* Fraction operators applied to the results of two others: a panic in an
\* operand is a panic of the whole expression
add_results(r, t) ==
    IF r.tag = "Ok" /\ t.tag = "Ok" THEN add(r.val, t.val) ELSE Panic

sub_results(r, t) ==
    IF r.tag = "Ok" /\ t.tag = "Ok" THEN sub(r.val, t.val) ELSE Panic

div_results(r, t) ==
    IF r.tag = "Ok" /\ t.tag = "Ok" THEN div(r.val, t.val) ELSE Panic

\* Complex::from applied to two Fraction results
ComplexOf(re, im) ==
    IF re.tag = "Ok" /\ im.tag = "Ok"
    THEN ComplexOk(complex_from(re.val, im.val))
    ELSE ComplexPanic

complex_eq(x, y) == eq(x.real, y.real) /\ eq(x.imaginary, y.imaginary)

complex_add(x, y) ==
    ComplexOf(add(x.real, y.real), add(x.imaginary, y.imaginary))

complex_neg(x) == complex_from(neg(x.real), neg(x.imaginary))

complex_sub(x, y) == complex_add(x, complex_neg(y))

complex_mul(x, y) ==
    ComplexOf(sub_results(mul(x.real, y.real), mul(x.imaginary, y.imaginary)),
              add_results(mul(x.real, y.imaginary), mul(x.imaginary, y.real)))

\* conjugate that leaves the imaginary part as it is
complex_conjugate_same(x) == complex_from(x.real, x.imaginary)

complex_conjugate(x) == complex_from(x.real, neg(x.imaginary))

complex_div(x, y) ==
    LET numerator == complex_mul(x, complex_conjugate(y))
        denominator == add_results(mul(y.real, y.real), mul(y.imaginary, y.imaginary))
    IN  IF numerator.tag = "Ok"
        THEN ComplexOf(div_results(Ok(numerator.val.real), denominator),
                       div_results(Ok(numerator.val.imaginary), denominator))
        ELSE ComplexPanic

(***************************************************************************)
(* The complex specification: za = a + b i and zb = c + d i are combined.  *)
(***************************************************************************)
ComplexInputs ==
    {Frac(n, m) : n \in -MaxComplexNum..MaxComplexNum, m \in 1..MaxComplexDen}

za == complex_from(a, b)

zb == complex_from(c, d)

ComplexInit ==
    /\ a \in ComplexInputs
    /\ b \in ComplexInputs
    /\ c \in ComplexInputs
    /\ d \in ComplexInputs
    /\ op = "init"
    /\ out = ComplexPanic
    /\ text = <<>>
    /\ F64Idle
    /\ SeqIdle
    /\ GcdIdle

DoComplexAdd == Apply("complex_add", complex_add(za, zb))

DoComplexSub == Apply("complex_sub", complex_sub(za, zb))

DoComplexMul == Apply("complex_mul", complex_mul(za, zb))

DoComplexDiv == Apply("complex_div", complex_div(za, zb))

ComplexNext ==
    \/ DoComplexAdd
    \/ DoComplexSub
    \/ DoComplexMul
    \/ DoComplexDiv

ComplexSpec == ComplexInit /\ [][ComplexNext]_vars

(***************************************************************************)
(* gcd, lib.rs 423-444, one action per iteration of its while loop.  The   *)
(* locals small, large, i and result of the function are g_small, g_large, *)
(* g_i and g_result; g_a and g_b are its arguments.                        *)
(***************************************************************************)
GcdInit ==
    /\ g_a \in 0..MaxGcdArg
    /\ g_b \in 0..MaxGcdArg
    /\ g_small = 0
    /\ g_large = 0
    /\ g_i = 0
    /\ g_result = 0
    /\ g_pc = "call"
    /\ a = Idle /\ b = Idle /\ c = Idle /\ d = Idle
    /\ op = "init" /\ out = Panic /\ text = <<>>
    /\ F64Idle
    /\ SeqIdle

\* lines 425-428: order the arguments, i = 1, result = 1
GcdEnter ==
    /\ g_pc = "call"
    /\ g_small' = get_ordering(g_a, g_b)[1]
    /\ g_large' = get_ordering(g_a, g_b)[2]
    /\ g_i' = 1
    /\ g_result' = 1
    /\ g_pc' = "loop"
    /\ UNCHANGED <<g_a, g_b, fraction_vars, f64_vars, seq_vars>>

\* lines 430-441: one iteration of the loop
GcdIterate ==
    /\ g_pc = "loop"
    /\ g_i <= g_small
    /\ IF g_small % g_i = 0 /\ g_large % g_i = 0
       THEN /\ g_small' = g_small \div g_i
            /\ g_large' = g_large \div g_i
            /\ g_result' = g_result * g_i
            /\ g_i' = 1 + 1
       ELSE /\ g_i' = g_i + 1
            /\ UNCHANGED <<g_small, g_large, g_result>>
    /\ UNCHANGED <<g_a, g_b, g_pc, fraction_vars, f64_vars, seq_vars>>

\* lines 430, 443: the loop condition fails and result is returned
GcdReturn ==
    /\ g_pc = "loop"
    /\ g_i > g_small
    /\ g_pc' = "returned"
    /\ UNCHANGED <<g_a, g_b, g_small, g_large, g_i, g_result,
                   fraction_vars, f64_vars, seq_vars>>

GcdNext ==
    \/ GcdEnter
    \/ GcdIterate
    \/ GcdReturn

GcdSpec == GcdInit /\ [][GcdNext]_vars

\* the function runs to its end: no step is postponed for ever
GcdFairSpec == GcdInit /\ [][GcdNext]_vars /\ WF_vars(GcdNext)

\* the operator gcd, which unfolds the loop once per divisor found, returns
\* what the loop returns
GcdOperatorAgrees == (g_pc = "returned") => g_result = gcd(g_a, g_b)

\* the loop ends
GcdTerminates == <>(g_pc = "returned")

(***************************************************************************)
(* Mathematical reference notions used to state the properties.            *)
(***************************************************************************)
Max(x, y) == IF x < y THEN y ELSE x

Divides(g, x) == x % g = 0

\* the largest integer dividing x and y (x, y >= 0, not both 0); every
\* positive integer divides 0, so MathGcd(0, y) = y
MathGcd(x, y) ==
    CHOOSE g \in 1..Max(x, y) :
        /\ Divides(g, x) /\ Divides(g, y)
        /\ \A h \in 1..Max(x, y) : (Divides(h, x) /\ Divides(h, y)) => h <= g

MathLcm(x, y) == (x * y) \div MathGcd(x, y)

\* lowest terms: denominator > 0 and the components share no factor
Canonical(f) ==
    /\ f.denominator > 0
    /\ MathGcd(Abs(f.numerator), f.denominator) = 1

\* the unique lowest-terms representation of a valid f
MathReduce(f) ==
    LET g == MathGcd(Abs(f.numerator), f.denominator)
    IN  Frac(TruncDiv(f.numerator, g), f.denominator \div g)

\* f and g denote the same rational number
SameValue(f, g) == f.numerator * g.denominator = g.numerator * f.denominator

\* the ordering of the rational values of f and g, over the least common
\* denominator
ValueCmp(f, g) ==
    LET l == MathLcm(f.denominator, g.denominator)
    IN  IntCmp(f.numerator * (l \div f.denominator),
               g.numerator * (l \div g.denominator))

\* the same value in another representation: both components times k
Scaled(f, k) == Frac(k * f.numerator, k * f.denominator)

\* p/q differs from value/Scale by no more than error/Scale
WithinTolerance(p, q) == Abs(p * Scale - value * q) <= error * q

Zero == from_i32(0)

One == from_i32(1)

(***************************************************************************)
(* C1.  For every numerator n and denominator d > 0, Fraction::new(n, d)   *)
(* and simplify return components in lowest terms (gcd(|n'|, d') = 1 with  *)
(* gcd(0, d) = d, so a zero numerator reduces to 0/1) that denote the same *)
(* value as n/d.                                                           *)
(***************************************************************************)
C1_LowestTerms ==
    (op \in {"new", "simplify"} /\ Valid(a)) =>
        /\ out.tag = "Ok"
        /\ Canonical(out.val)
        /\ SameValue(out.val, a)

(***************************************************************************)
(* C2.  For Fractions a, b with positive denominators, cmp is the integer  *)
(* ordering of a.n * b.d against b.n * a.d; it agrees with the ordering of *)
(* the rational values whatever the representation (a and any k*a.n/k*a.d  *)
(* compare equal and order identically against b and c), and == holds      *)
(* exactly when cmp is Equal.                                              *)
(***************************************************************************)
C2_CmpExact ==
    (op = "cmp" /\ Valid(a) /\ Valid(b)) =>
        /\ out = IntCmp(a.numerator * b.denominator, b.numerator * a.denominator)
        /\ out = ValueCmp(a, b)
        /\ eq(a, b) <=> (out = "Equal")
        /\ (out = "Equal") <=> (MathReduce(a) = MathReduce(b))
        /\ \A k \in 1..MaxDen :
              /\ cmp(Scaled(a, k), a) = "Equal"
              /\ cmp(Scaled(a, k), b) = out
              /\ cmp(a, Scaled(b, k)) = out
              /\ cmp(Scaled(a, k), c) = cmp(a, c)

C2_Witness ==
    /\ op = "cmp"
    /\ a = Frac(1, 2)
    /\ b = Frac(2, 4)
    /\ out = "Equal"

(***************************************************************************)
(* C3.  For valid Fractions a, b, c, under value equality: a + b = b + a,  *)
(* (a + b) + c = a + (b + c) and a + (-a) = 0.                             *)
(***************************************************************************)
C3_AddLaws ==
    (op = "add" /\ Valid(a) /\ Valid(b) /\ Valid(c)) =>
        /\ out.tag = "Ok"
        /\ SameValue(out.val, Frac(a.numerator * b.denominator
                                   + b.numerator * a.denominator,
                                   a.denominator * b.denominator))
        /\ add(b, a).tag = "Ok"
        /\ eq(out.val, add(b, a).val)
        /\ add(b, c).tag = "Ok"
        /\ add(out.val, c).tag = "Ok"
        /\ add(a, add(b, c).val).tag = "Ok"
        /\ eq(add(out.val, c).val, add(a, add(b, c).val).val)
        /\ add(a, neg(a)).tag = "Ok"
        /\ eq(add(a, neg(a)).val, Zero)

C3_Witness ==
    /\ op = "add"
    /\ a = Frac(1, 2)
    /\ b = Frac(-3, 4)
    /\ c = Frac(1, 2)
    /\ out = Ok(Frac(-1, 4))

(***************************************************************************)
(* C4.  For a valid Fraction a with nonzero numerator, reciprocal(a)       *)
(* succeeds with numerator and denominator swapped, the sign on the new    *)
(* numerator and the new denominator strictly positive, and                *)
(* a * reciprocal(a) = 1.                                                  *)
(***************************************************************************)
C4_Reciprocal ==
    (op = "reciprocal" /\ Valid(a) /\ a.numerator # 0) =>
        /\ out.tag = "Ok"
        /\ Abs(out.val.numerator) = a.denominator
        /\ out.val.denominator = Abs(a.numerator)
        /\ Signum(out.val.numerator) = Signum(a.numerator)
        /\ out.val.denominator > 0
        /\ mul(a, out.val).tag = "Ok"
        /\ eq(mul(a, out.val).val, One)

C4_Witness ==
    /\ op = "reciprocal"
    /\ a = Frac(-2, 3)
    /\ out = Ok(Frac(-3, 2))

(***************************************************************************)
(* C8.  A zero divisor is signalled exactly when it occurs: new and        *)
(* unsimplified_new return DivByZeroError iff the denominator is 0         *)
(* (unsimplified_new otherwise stores the components as given);            *)
(* reciprocal returns DivByZeroError iff the numerator is 0; division of   *)
(* valid operands panics iff the right operand's numerator is 0.           *)
(***************************************************************************)
C8_ZeroDivisor ==
    /\ (op = "new") =>
          /\ out.tag \in {"Ok", "Err"}
          /\ (out = DivByZeroError) <=> (a.denominator = 0)
    /\ (op = "unsimplified_new") =>
          /\ (out = DivByZeroError) <=> (a.denominator = 0)
          /\ (a.denominator # 0) => out = Ok(a)
    /\ (op = "reciprocal") =>
          /\ out.tag \in {"Ok", "Err"}
          /\ (out = DivByZeroError) <=> (a.numerator = 0)
    /\ (op = "div" /\ Valid(a) /\ Valid(b)) =>
          /\ out.tag \in {"Ok", "Panic"}
          /\ (out = Panic) <=> (b.numerator = 0)

C8_Witness ==
    /\ op = "div"
    /\ a = Frac(1, 2)
    /\ b = Frac(0, 3)
    /\ out = Panic

(***************************************************************************)
(* C5 as stated.  Round trip: for every valid Fraction f, denominator 1    *)
(* included, parsing the text Display wrote for f succeeds and returns a   *)
(* Fraction equal in value to f.                                           *)
(***************************************************************************)
C5_RoundTrip ==
    (op = "from_str" /\ text = fmt(a) /\ Valid(a)) =>
        /\ out.tag = "Ok"
        /\ eq(out.val, a)

(***************************************************************************)
(* C5 amended.  For every valid Fraction f with denominator other than 1,  *)
(* parsing the text Display wrote for f succeeds and returns a Fraction    *)
(* equal in value to f; for denominator 1 Display writes the bare integer, *)
(* which has no '/', and parsing it returns ParseFractionError.            *)
(***************************************************************************)
C5_RoundTripWithSlash ==
    (op = "from_str" /\ text = fmt(a) /\ Valid(a)) =>
        IF a.denominator # 1
        THEN /\ out.tag = "Ok"
             /\ eq(out.val, a)
        ELSE out = ParseFractionError

C5_Witness ==
    /\ op = "from_str"
    /\ a = Frac(-10, 4)
    /\ text = <<"-", "1", "0", "/", "4">>
    /\ out = Ok(Frac(-5, 2))

(***************************************************************************)
(* C6.  For every value v and tolerance e, from_f64(v, e) returns a        *)
(* Fraction within e of v, and no fraction with a smaller denominator lies *)
(* within e of v.                                                          *)
(***************************************************************************)
C6_SimplestWithinTolerance ==
    (pc = "returned") =>
        /\ result.tag = "Ok"
        /\ result.val.denominator > 0
        /\ WithinTolerance(result.val.numerator, result.val.denominator)
        /\ \A q \in 1..(result.val.denominator - 1) :
              \A p \in ((integer_part - 2) * q)..((integer_part + 3) * q) :
                  ~WithinTolerance(p, q)

(***************************************************************************)
(* C10.  The mediant search of from_f64 always converges: for every value  *)
(* and every tolerance the loop reaches its return branch after finitely   *)
(* many iterations.                                                        *)
(***************************************************************************)
C10_Converges == <>(pc = "returned")

(***************************************************************************)
(* C7.  Complex division is the inverse of multiplication: for every valid *)
(* Complex za and every Complex zb that is not zero, (za / zb) * zb = za,  *)
(* component by component under Fraction equality.                         *)
(***************************************************************************)
C7_DivInvertsMul ==
    (op = "complex_div" /\ ~complex_eq(zb, complex_from(Zero, Zero))) =>
        /\ out.tag = "Ok"
        /\ complex_mul(out.val, zb).tag = "Ok"
        /\ complex_eq(complex_mul(out.val, zb).val, za)

C7_Witness ==
    /\ op = "complex_div"
    /\ za = complex_from(Frac(1, 1), Frac(1, 2))
    /\ zb = complex_from(Frac(1, 1), Frac(-1, 1))
    /\ out = ComplexOk(complex_from(Frac(1, 4), Frac(3, 4)))

(***************************************************************************)
(* C9.  Canonical-form invariant: after any sequence of add, sub, mul,     *)
(* div, neg, abs and successful reciprocal applied to Fractions built by   *)
(* Fraction::new or from_i32, every resulting Fraction has denominator > 0 *)
(* and gcd(|numerator|, denominator) = 1.                                  *)
(***************************************************************************)
C9_CanonicalResults == (last # "built") => Canonical(acc)

(***************************************************************************)
(* C11.  For all non-negative integers a and b, not both 0, gcd(a, b)      *)
(* returns the largest integer dividing both, independent of the order of  *)
(* the arguments, with gcd(0, n) = gcd(n, 0) = n.                          *)
(***************************************************************************)
C11_GcdIsGreatest ==
    (g_pc = "returned" /\ (g_a # 0 \/ g_b # 0)) =>
        /\ g_result = MathGcd(g_a, g_b)
        /\ g_result = gcd(g_b, g_a)
        /\ (g_a = 0) => (g_result = g_b)
        /\ (g_b = 0) => (g_result = g_a)

====
